---- MODULE Spec2Model ----
(***************************************************************************)
(* Model of MassTransitBillingSystem (src/src/mass_transit_billing.py).    *)
(*                                                                         *)
(* Money is an exact decimal counted in thousandths of a pound (0.80 is    *)
(* 800), so that round(x, 2) and format(x, ".2f") are real conversions.    *)
(* The Python code adds floats; the amount it reports, rendered with two   *)
(* decimals, is the exact decimal sum modelled here.                       *)
(*                                                                         *)
(* Strings that the program parses or orders (user ids, zone texts,        *)
(* amounts) are sequences of character codes; strings it only compares     *)
(* for equality (stations, directions) are TLA+ strings.                   *)
(***************************************************************************)
EXTENDS Integers, Sequences, FiniteSets, TLC

VARIABLES
    zone_map_file,      \* rows of the zone map CSV, header first
    journey_data_file,  \* rows of the journey CSV, header first
    output_file,        \* [opened, lines]: the report on disk
    station_to_zone,    \* self.station_to_zone
    journeys_per_user,  \* self.journeys_per_user, in insertion order: <<user_id, journeys>>
    user_bills,         \* self.user_bills, in insertion order: <<user_id, amount>>
    pc,                 \* position of the run
    raised,             \* the exception that ended the run, or "none"
    row,                \* position of the csv reader / of the writer loop
    user_idx,           \* position of the loop over journeys_per_user.items()
    ev_idx,             \* position of the loop over the user's journeys
    daily_journeys,     \* the stack of entry zones
    daily_total,
    monthly_total,
    cur_day,
    sorted_bills,       \* sorted(self.user_bills.items())
    cost_calls          \* the last calls of get_additional_zone_cost: [arg, out]

inputVars == <<zone_map_file, journey_data_file>>
dataVars == <<station_to_zone, journeys_per_user, user_bills>>
fareVars == <<user_idx, ev_idx, daily_journeys, daily_total, monthly_total, cur_day>>
writeVars == <<output_file, sorted_bills>>
vars == <<zone_map_file, journey_data_file, output_file, station_to_zone,
          journeys_per_user, user_bills, pc, raised, row, user_idx, ev_idx,
          daily_journeys, daily_total, monthly_total, cur_day, sorted_bills,
          cost_calls>>

----------------------------------------------------------------------------
(* Bounds of the model *)

\* zones 1..MaxZone are tried as entry and exit zone of a single journey, and
\* -MaxZone..MaxZone as integer arguments of get_additional_zone_cost
MaxZone == 7
\* longest tap log drawn exhaustively
MaxEvents == 4
\* long logs repeat one day's pattern of at most MaxPattern taps on
\* 1..MaxLongDays consecutive days
MaxPattern == 3
MaxLongDays == 8

----------------------------------------------------------------------------
(* Amounts *)

BaseFare == 2000
MissingTapFee == 5000
DailyCap == 15000
MonthlyCap == 100000

Min(a, b) == IF a <= b THEN a ELSE b

\* round(x, 2): to the nearest hundredth, ties to the even hundredth
Round2(x) ==
    LET lo == x - (x % 10)
        r == x % 10
    IN  IF r < 5 THEN lo
        ELSE IF r > 5 THEN lo + 10
        ELSE IF (lo \div 10) % 2 = 0 THEN lo ELSE lo + 10

----------------------------------------------------------------------------
(* Python values and get_additional_zone_cost *)

PyInt(n) == [type |-> "int", val |-> n]
PyBool(b) == [type |-> "bool", val |-> IF b THEN 1 ELSE 0]
PyOther(t) == [type |-> t, val |-> 0]

\* isinstance(v, int): bool is a subclass of int
IsInstanceInt(v) == v.type \in {"int", "bool"}

Returned(x) == [raised |-> "none", value |-> x]
Raised(e) == [raised |-> e, value |-> 0]
\* falling off the end of a function returns None
ReturnedNone == [raised |-> "none", value |-> -1]

\* faulty variants of get_additional_zone_cost: a tier boundary that leaves
\* zone 3 to fall off the end, and the range check ahead of the type check
GetAdditionalZoneCostGap(zone) ==
    IF ~IsInstanceInt(zone) THEN Raised("TypeError")
    ELSE IF zone.val <= 0 THEN Raised("ValueError")
    ELSE IF zone.val = 1 THEN Returned(800)
    ELSE IF 2 <= zone.val /\ zone.val < 3 THEN Returned(500)
    ELSE IF 4 <= zone.val /\ zone.val <= 5 THEN Returned(300)
    ELSE IF zone.val >= 6 THEN Returned(100)
    ELSE ReturnedNone
GetAdditionalZoneCostRangeFirst(zone) ==
    IF zone.val <= 0 THEN Raised("ValueError")
    ELSE IF ~IsInstanceInt(zone) THEN Raised("TypeError")
    ELSE IF zone.val = 1 THEN Returned(800)
    ELSE IF 2 <= zone.val /\ zone.val <= 3 THEN Returned(500)
    ELSE IF 4 <= zone.val /\ zone.val <= 5 THEN Returned(300)
    ELSE IF zone.val >= 6 THEN Returned(100)
    ELSE ReturnedNone

GetAdditionalZoneCost(zone) ==
    IF ~IsInstanceInt(zone) THEN Raised("TypeError")
    ELSE IF zone.val <= 0 THEN Raised("ValueError")
    ELSE IF zone.val = 1 THEN Returned(800)
    ELSE IF 2 <= zone.val /\ zone.val <= 3 THEN Returned(500)
    ELSE IF 4 <= zone.val /\ zone.val <= 5 THEN Returned(300)
    ELSE IF zone.val >= 6 THEN Returned(100)
    ELSE ReturnedNone

----------------------------------------------------------------------------
(* Journeys: (zone, direction, timestamp), timestamp a datetime *)

DateTime(d, t) == [date |-> d, time |-> t]
\* timestamp.date()
DateOf(timestamp) == timestamp.date

ZoneOf(journey) == journey[1]
DirectionOf(journey) == journey[2]
TimestampOf(journey) == journey[3]

\* dict[key] = value on an insertion-ordered dict held as <<key, value>> pairs
DictKeys(d) == {d[i][1] : i \in 1..Len(d)}
DictGet(d, k) == d[CHOOSE i \in 1..Len(d) : d[i][1] = k][2]
DictSet(d, k, v) ==
    IF k \in DictKeys(d)
    THEN [i \in 1..Len(d) |-> IF d[i][1] = k THEN <<k, v>> ELSE d[i]]
    ELSE Append(d, <<k, v>>)

----------------------------------------------------------------------------
(* calculate_billing_amounts_per_user: the steps of the loop body *)

\* daily_journeys.append(zone)
PushEntry(stack, zone) == Append(stack, zone)
\* faulty variant of the pop: the oldest entry removed, as pop(0) would
AfterPopFront(stack) == Tail(stack)

\* daily_journeys.pop(): the zone popped, and the stack left
PoppedZone(stack) == stack[Len(stack)]
AfterPop(stack) == SubSeq(stack, 1, Len(stack) - 1)

\* faulty variant of the penalty: an exit without an entry costs nothing
AddMissingTapFeeOff(daily) == daily

\* daily_total += 5.00
AddMissingTapFee(daily) == daily + MissingTapFee

\* faulty variant of the journey cost: the exit zone priced twice
JourneyCostExitTwice(entry_zone, zone) ==
    LET b == GetAdditionalZoneCost(PyInt(zone))
    IN  IF b.raised # "none" THEN b ELSE Returned(BaseFare + b.value + b.value)

\* 2.0 + get_additional_zone_cost(entry_zone) + get_additional_zone_cost(zone)
JourneyCost(entry_zone, zone) ==
    LET a == GetAdditionalZoneCost(PyInt(entry_zone))
        b == GetAdditionalZoneCost(PyInt(zone))
    IN  IF a.raised # "none" THEN a
        ELSE IF b.raised # "none" THEN b
        ELSE Returned(BaseFare + a.value + b.value)

\* daily_total += round(journey_cost, 2)
AddJourneyCost(daily, journey_cost) == daily + Round2(journey_cost)

\* faulty variant of the chain: every direction but IN taken for an OUT
ChargeTapElseOut(stack, daily, journey) ==
    LET zone == ZoneOf(journey)
        direction == DirectionOf(journey)
    IN  IF direction = "IN"
        THEN [stack |-> PushEntry(stack, zone), daily |-> daily, raised |-> "none"]
        ELSE IF stack = <<>>
        THEN [stack |-> stack, daily |-> AddMissingTapFee(daily), raised |-> "none"]
        ELSE LET c == JourneyCost(PoppedZone(stack), zone)
             IN  IF c.raised # "none"
                 THEN [stack |-> AfterPop(stack), daily |-> daily, raised |-> c.raised]
                 ELSE [stack |-> AfterPop(stack),
                       daily |-> AddJourneyCost(daily, c.value),
                       raised |-> "none"]

\* the if / elif chain on the direction
ChargeTap(stack, daily, journey) ==
    LET zone == ZoneOf(journey)
        direction == DirectionOf(journey)
    IN  IF direction = "IN"
        THEN [stack |-> PushEntry(stack, zone), daily |-> daily, raised |-> "none"]
        ELSE IF direction = "OUT" /\ stack = <<>>
        THEN [stack |-> stack, daily |-> AddMissingTapFee(daily), raised |-> "none"]
        ELSE IF direction = "OUT"
        THEN LET c == JourneyCost(PoppedZone(stack), zone)
             IN  IF c.raised # "none"
                 THEN [stack |-> AfterPop(stack), daily |-> daily, raised |-> c.raised]
                 ELSE [stack |-> AfterPop(stack),
                       daily |-> AddJourneyCost(daily, c.value),
                       raised |-> "none"]
        ELSE [stack |-> stack, daily |-> daily, raised |-> "none"]

\* faulty variant of the day check: any other date starts a new day
NewDayStartedOnAnyChange(timestamp, day) == DateOf(timestamp) # day

\* timestamp.date() > cur_day
NewDayStarted(timestamp, day) == DateOf(timestamp) > day

\* faulty variant of the rollover: the daily total folded without its cap
FoldDayUncapped(monthly, daily) == monthly + daily

\* monthly_total += min(15.00, daily_total)
FoldDay(monthly, daily) == monthly + Min(DailyCap, daily)

\* faulty variant of the un-exited fees: one fee however many entries are left
AddUnexitedFeeOnce(daily, stack) ==
    IF stack # <<>> THEN daily + MissingTapFee ELSE daily

\* if daily_journeys: daily_total += round(5.00 * len(daily_journeys), 2)
AddUnexitedFees(daily, stack) ==
    IF stack # <<>> THEN daily + Round2(MissingTapFee * Len(stack)) ELSE daily

\* monthly_total += round(min(15.00, daily_total), 2)
FinalFold(monthly, daily) == monthly + Round2(Min(DailyCap, daily))

\* faulty variant of the bill: the monthly total stored without its cap
CapMonthOff(monthly) == monthly

\* min(100.00, monthly_total)
CapMonth(monthly) == Min(MonthlyCap, monthly)

\* the loop over one user's journeys as a fold: the locals after n journeys
RECURSIVE FareAfter(_, _)
FareAfter(journeys, n) ==
    IF n = 0
    THEN [stack |-> <<>>, daily |-> 0, monthly |-> 0,
          day |-> DateOf(TimestampOf(journeys[1]))]
    ELSE LET s == FareAfter(journeys, n - 1)
             c == ChargeTap(s.stack, s.daily, journeys[n])
             new == NewDayStarted(TimestampOf(journeys[n]), s.day)
         IN  [stack |-> c.stack,
              daily |-> IF new THEN 0 ELSE c.daily,
              monthly |-> IF new THEN FoldDay(s.monthly, c.daily) ELSE s.monthly,
              day |-> IF new THEN DateOf(TimestampOf(journeys[n])) ELSE s.day]

\* the bill of a non-empty log of journeys with valid zones
BillOf(journeys) ==
    LET s == FareAfter(journeys, Len(journeys))
    IN  CapMonth(FinalFold(s.monthly, AddUnexitedFees(s.daily, s.stack)))

CurUser == journeys_per_user[user_idx][1]
CurJourneys == journeys_per_user[user_idx][2]
CurJourney == CurJourneys[ev_idx]

Fail(e) ==
    /\ pc' = "failed"
    /\ raised' = e

\* faulty variant of the head of the loop: the stack of entries is made once,
\* before the loop, and is carried from one user to the next
CalcBeginUserKeepStack ==
    /\ pc = "calc_user"
    /\ IF user_idx > Len(journeys_per_user)
       THEN /\ pc' = "calc_return"
            /\ UNCHANGED <<raised, fareVars>>
       ELSE IF CurJourneys = <<>>
       THEN /\ Fail("IndexError")
            /\ UNCHANGED fareVars
       ELSE /\ daily_total' = 0
            /\ monthly_total' = 0
            /\ cur_day' = DateOf(TimestampOf(CurJourneys[1]))
            /\ ev_idx' = 1
            /\ pc' = "calc_charge"
            /\ UNCHANGED <<raised, user_idx, daily_journeys>>
    /\ UNCHANGED <<inputVars, dataVars, writeVars, row, cost_calls>>

\* the head of the loop over the users: the next user's locals, or the return
CalcBeginUser ==
    /\ pc = "calc_user"
    /\ IF user_idx > Len(journeys_per_user)
       THEN /\ pc' = "calc_return"
            /\ UNCHANGED <<raised, fareVars>>
       ELSE IF CurJourneys = <<>>
       THEN /\ Fail("IndexError")
            /\ UNCHANGED fareVars
       ELSE /\ daily_journeys' = <<>>
            /\ daily_total' = 0
            /\ monthly_total' = 0
            /\ cur_day' = DateOf(TimestampOf(CurJourneys[1]))
            /\ ev_idx' = 1
            /\ pc' = "calc_charge"
            /\ UNCHANGED <<raised, user_idx>>
    /\ UNCHANGED <<inputVars, dataVars, writeVars, row, cost_calls>>

\* one journey through the if / elif chain
CalcCharge ==
    /\ pc = "calc_charge"
    /\ LET r == ChargeTap(daily_journeys, daily_total, CurJourney)
       IN  /\ daily_journeys' = r.stack
           /\ daily_total' = r.daily
           /\ IF r.raised # "none"
              THEN Fail(r.raised)
              ELSE pc' = "calc_rollover" /\ UNCHANGED raised
    /\ UNCHANGED <<inputVars, dataVars, writeVars, row, cost_calls,
                   user_idx, ev_idx, monthly_total, cur_day>>

\* faulty variant of the day check: a new day starts with no entry pending
CalcRolloverDropsEntries ==
    /\ pc = "calc_rollover"
    /\ IF NewDayStarted(TimestampOf(CurJourney), cur_day)
       THEN /\ cur_day' = DateOf(TimestampOf(CurJourney))
            /\ monthly_total' = FoldDay(monthly_total, daily_total)
            /\ daily_total' = 0
            /\ daily_journeys' = <<>>
       ELSE UNCHANGED <<cur_day, monthly_total, daily_total, daily_journeys>>
    /\ ev_idx' = ev_idx + 1
    /\ pc' = IF ev_idx + 1 > Len(CurJourneys) THEN "calc_finish" ELSE "calc_charge"
    /\ UNCHANGED <<inputVars, dataVars, writeVars, row, cost_calls, raised,
                   user_idx>>

\* the day check that ends the loop body, and the step to the next journey
CalcRollover ==
    /\ pc = "calc_rollover"
    /\ IF NewDayStarted(TimestampOf(CurJourney), cur_day)
       THEN /\ cur_day' = DateOf(TimestampOf(CurJourney))
            /\ monthly_total' = FoldDay(monthly_total, daily_total)
            /\ daily_total' = 0
       ELSE UNCHANGED <<cur_day, monthly_total, daily_total>>
    /\ ev_idx' = ev_idx + 1
    /\ pc' = IF ev_idx + 1 > Len(CurJourneys) THEN "calc_finish" ELSE "calc_charge"
    /\ UNCHANGED <<inputVars, dataVars, writeVars, row, cost_calls, raised,
                   user_idx, daily_journeys>>

\* after the user's last journey: the un-exited fees, the final fold, the bill
CalcFinish ==
    /\ pc = "calc_finish"
    /\ daily_total' = AddUnexitedFees(daily_total, daily_journeys)
    /\ monthly_total' = FinalFold(monthly_total, daily_total')
    /\ user_bills' = DictSet(user_bills, CurUser, CapMonth(monthly_total'))
    /\ user_idx' = user_idx + 1
    /\ pc' = "calc_user"
    /\ UNCHANGED <<inputVars, writeVars, station_to_zone, journeys_per_user,
                   row, cost_calls, raised, ev_idx, daily_journeys, cur_day>>

----------------------------------------------------------------------------
(* SpecFare: calculate_billing_amounts_per_user on one user's tap log *)

\* "u1"
FareUser == <<117, 49>>

SeqsUpTo(S, n) == UNION {[1..k -> S] : k \in 0..n}

\* zone and direction of a tap: zones of the dearest and the cheapest tier,
\* and a direction that is neither IN nor OUT
ShortTaps == ({1, 6} \X {"IN", "OUT"}) \cup {<<1, "TRANSFER">>}
\* two dates with a day between them
ShortDays == {1, 3}
ShortJourneys == {<<t[1], t[2], DateTime(d, 0)>> : t \in ShortTaps, d \in ShortDays}
\* every log of at most MaxEvents taps, in any order of the dates
ShortLogs == SeqsUpTo(ShortJourneys, MaxEvents)

\* one IN and one OUT on the same day, over every pair of zones
PairLogs ==
    {<<<<a, "IN", DateTime(1, 0)>>, <<b, "OUT", DateTime(1, 1)>>>> :
        a \in 1..MaxZone, b \in 1..MaxZone}

\* the taps of pattern p on each of the days 1..k
LongLog(p, k) ==
    [i \in 1..(Len(p) * k) |->
        LET t == p[((i - 1) % Len(p)) + 1]
        IN  <<t[1], t[2], DateTime(((i - 1) \div Len(p)) + 1, 0)>>]
LongLogs ==
    {LongLog(p, k) : p \in SeqsUpTo(ShortTaps, MaxPattern) \ {<<>>},
                     k \in 1..MaxLongDays}

FareLogs == ShortLogs \cup PairLogs \cup LongLogs

InitFare ==
    /\ zone_map_file = <<>>
    /\ journey_data_file = <<>>
    /\ output_file = [opened |-> FALSE, lines |-> <<>>]
    /\ station_to_zone = <<>>
    /\ journeys_per_user \in {<<<<FareUser, log>>>> : log \in FareLogs}
    /\ user_bills = <<>>
    /\ pc = "calc_user"
    /\ raised = "none"
    /\ row = 0
    /\ user_idx = 1
    /\ ev_idx = 0
    /\ daily_journeys = <<>>
    /\ daily_total = 0
    /\ monthly_total = 0
    /\ cur_day = 0
    /\ sorted_bills = <<>>
    /\ cost_calls = <<>>

NextFare == CalcBeginUser \/ CalcCharge \/ CalcRollover \/ CalcFinish

SpecFare == InitFare /\ [][NextFare]_vars

----------------------------------------------------------------------------
(* SpecCost: get_additional_zone_cost called on arbitrary Python values *)

PyFloat(n) == [type |-> "float", val |-> n]

PyValues ==
    {PyInt(n) : n \in (-MaxZone)..MaxZone}
    \cup {PyBool(TRUE), PyBool(FALSE)}
    \cup {PyFloat(n) : n \in {-1, 0, 1}}
    \cup {PyOther(t) : t \in {"str", "list", "dict", "NoneType"}}

InitCost ==
    /\ zone_map_file = <<>>
    /\ journey_data_file = <<>>
    /\ output_file = [opened |-> FALSE, lines |-> <<>>]
    /\ station_to_zone = <<>>
    /\ journeys_per_user = <<>>
    /\ user_bills = <<>>
    /\ pc = "cost"
    /\ raised = "none"
    /\ row = 0
    /\ user_idx = 0
    /\ ev_idx = 0
    /\ daily_journeys = <<>>
    /\ daily_total = 0
    /\ monthly_total = 0
    /\ cur_day = 0
    /\ sorted_bills = <<>>
    /\ cost_calls = <<>>

\* one call; the two most recent calls are kept
CallCost ==
    /\ pc = "cost"
    /\ \E v \in PyValues :
          LET call == [arg |-> v, out |-> GetAdditionalZoneCost(v)]
          IN  cost_calls' = IF Len(cost_calls) = 2
                            THEN <<cost_calls[2], call>>
                            ELSE Append(cost_calls, call)
    /\ UNCHANGED <<inputVars, dataVars, writeVars, fareVars, pc, raised, row>>

NextCost == CallCost

SpecCost == InitCost /\ [][NextCost]_vars

----------------------------------------------------------------------------
(* Texts: int(), datetime.strptime(), string order, format(x, ".2f") *)

IsDigit(c) == 48 <= c /\ c <= 57

RECURSIVE DigitsValue(_)
DigitsValue(text) ==
    IF text = <<>> THEN 0
    ELSE 10 * DigitsValue(SubSeq(text, 1, Len(text) - 1)) + (text[Len(text)] - 48)

\* int(text): an optional sign and at least one decimal digit, else ValueError
ParseInt(text) ==
    LET signed == text # <<>> /\ text[1] \in {43, 45}
        digits == IF signed THEN Tail(text) ELSE text
    IN  IF digits = <<>> \/ \E i \in 1..Len(digits) : ~IsDigit(digits[i])
        THEN Raised("ValueError")
        ELSE IF signed /\ text[1] = 45
        THEN Returned(0 - DigitsValue(digits))
        ELSE Returned(DigitsValue(digits))

SecondsPerDay == 86400

\* datetime.strptime(text, "%Y-%m-%dT%H:%M:%S"): the text is <<date, seconds
\* of the day>>; a date or time out of range is a ValueError
Strptime(text) ==
    IF text[1] >= 1 /\ 0 <= text[2] /\ text[2] < SecondsPerDay
    THEN [raised |-> "none", value |-> DateTime(text[1], text[2])]
    ELSE [raised |-> "ValueError", value |-> DateTime(0, 0)]

\* a < b on str: by code point, a proper prefix first
RECURSIVE StrLess(_, _)
StrLess(a, b) ==
    IF b = <<>> THEN FALSE
    ELSE IF a = <<>> THEN TRUE
    ELSE IF a[1] # b[1] THEN a[1] < b[1]
    ELSE StrLess(Tail(a), Tail(b))

\* (user_id, amount) < (user_id, amount) on tuples
ItemLess(a, b) == StrLess(a[1], b[1]) \/ (a[1] = b[1] /\ a[2] < b[2])

\* faulty variant of the report order: the bills in insertion order
SortedItemsOff(items) == items

\* sorted(self.user_bills.items())
SortedItems(items) == SortSeq(items, ItemLess)

RECURSIVE Digits(_)
\* str(n) for n >= 0
Digits(n) == IF n < 10 THEN <<48 + n>> ELSE Append(Digits(n \div 10), 48 + (n % 10))

\* format(bill_amount, ".2f")
FormatAmount(amount) ==
    LET h == Round2(amount) \div 10
    IN  Digits(h \div 100) \o <<46, 48 + ((h % 100) \div 10), 48 + (h % 10)>>

----------------------------------------------------------------------------
(* read_zone_map, read_journey_data, write_billing_output, process_billing *)

\* next(reader, None): the first row, if any, is skipped
AfterHeader(file) == IF file = <<>> THEN 1 ELSE 2

ZoneMapOpen ==
    /\ pc = "zone_open"
    /\ row' = AfterHeader(zone_map_file)
    /\ pc' = "zone_rows"
    /\ UNCHANGED <<inputVars, dataVars, writeVars, fareVars, raised, cost_calls>>

\* for station, zone in reader: self.station_to_zone[station] = int(zone)
ReadZoneRow ==
    /\ pc = "zone_rows"
    /\ IF row > Len(zone_map_file)
       THEN /\ pc' = "journey_open"
            /\ UNCHANGED <<raised, row, station_to_zone>>
       ELSE LET fields == zone_map_file[row]
            IN  IF Len(fields) # 2
                THEN Fail("ValueError") /\ UNCHANGED <<row, station_to_zone>>
                ELSE LET z == ParseInt(fields[2])
                     IN  IF z.raised # "none"
                         THEN Fail(z.raised) /\ UNCHANGED <<row, station_to_zone>>
                         ELSE /\ station_to_zone' =
                                     DictSet(station_to_zone, fields[1], z.value)
                              /\ row' = row + 1
                              /\ UNCHANGED <<pc, raised>>
    /\ UNCHANGED <<inputVars, writeVars, fareVars, journeys_per_user, user_bills,
                   cost_calls>>

JourneyDataOpen ==
    /\ pc = "journey_open"
    /\ row' = AfterHeader(journey_data_file)
    /\ pc' = "journey_rows"
    /\ UNCHANGED <<inputVars, dataVars, writeVars, fareVars, raised, cost_calls>>

\* self.journeys_per_user[user_id]: a defaultdict makes the missing key
TouchUser(d, user_id) == IF user_id \in DictKeys(d) THEN d ELSE Append(d, <<user_id, <<>>>>)

\* faulty variant of the append: the journey put in front of the user's list
AppendJourneyInFront(d, user_id, journey) ==
    LET t == TouchUser(d, user_id)
    IN  DictSet(t, user_id, <<journey>> \o DictGet(t, user_id))

\* self.journeys_per_user[user_id].append(journey)
AppendJourney(d, user_id, journey) ==
    LET t == TouchUser(d, user_id)
    IN  DictSet(t, user_id, Append(DictGet(t, user_id), journey))

\* faulty variant of the read: a row with an unknown station is passed over
ReadJourneyRowSkipsUnknown ==
    /\ pc = "journey_rows"
    /\ IF row > Len(journey_data_file)
       THEN /\ pc' = "calc_user"
            /\ user_idx' = 1
            /\ UNCHANGED <<raised, row, journeys_per_user>>
       ELSE LET fields == journey_data_file[row]
            IN  IF Len(fields) # 4
                THEN /\ Fail("ValueError")
                     /\ UNCHANGED <<row, journeys_per_user, user_idx>>
                ELSE LET user_id == fields[1]
                         station == fields[2]
                         direction == fields[3]
                         timestamp == Strptime(fields[4])
                     IN  IF timestamp.raised # "none"
                         THEN /\ Fail(timestamp.raised)
                              /\ UNCHANGED <<row, journeys_per_user, user_idx>>
                         ELSE IF station \notin DictKeys(station_to_zone)
                         THEN /\ journeys_per_user' = TouchUser(journeys_per_user, user_id)
                              /\ row' = row + 1
                              /\ UNCHANGED <<pc, raised, user_idx>>
                         ELSE /\ journeys_per_user' =
                                     AppendJourney(journeys_per_user, user_id,
                                         <<DictGet(station_to_zone, station), direction,
                                           timestamp.value>>)
                              /\ row' = row + 1
                              /\ UNCHANGED <<pc, raised, user_idx>>
    /\ UNCHANGED <<inputVars, writeVars, station_to_zone, user_bills, cost_calls,
                   ev_idx, daily_journeys, daily_total, monthly_total, cur_day>>

\* for user_id, station, direction, timestamp in reader: ...
ReadJourneyRow ==
    /\ pc = "journey_rows"
    /\ IF row > Len(journey_data_file)
       THEN /\ pc' = "calc_user"
            /\ user_idx' = 1
            /\ UNCHANGED <<raised, row, journeys_per_user>>
       ELSE LET fields == journey_data_file[row]
            IN  IF Len(fields) # 4
                THEN /\ Fail("ValueError")
                     /\ UNCHANGED <<row, journeys_per_user, user_idx>>
                ELSE LET user_id == fields[1]
                         station == fields[2]
                         direction == fields[3]
                         timestamp == Strptime(fields[4])
                     IN  IF timestamp.raised # "none"
                         THEN /\ Fail(timestamp.raised)
                              /\ UNCHANGED <<row, journeys_per_user, user_idx>>
                         ELSE IF station \notin DictKeys(station_to_zone)
                         THEN /\ Fail("KeyError")
                              /\ journeys_per_user' = TouchUser(journeys_per_user, user_id)
                              /\ UNCHANGED <<row, user_idx>>
                         ELSE /\ journeys_per_user' =
                                     AppendJourney(journeys_per_user, user_id,
                                         <<DictGet(station_to_zone, station), direction,
                                           timestamp.value>>)
                              /\ row' = row + 1
                              /\ UNCHANGED <<pc, raised, user_idx>>
    /\ UNCHANGED <<inputVars, writeVars, station_to_zone, user_bills, cost_calls,
                   ev_idx, daily_journeys, daily_total, monthly_total, cur_day>>

\* writer.writerow([user_id, formatted_amount])
ReportLine(item) == <<item[1], FormatAmount(item[2])>>

\* faulty variant of the write: the report is written after an abort as well
WriteOpenOnFailure ==
    /\ pc \in {"calc_return", "failed"}
    /\ output_file' = [opened |-> TRUE, lines |-> <<>>]
    /\ sorted_bills' = SortedItems(user_bills)
    /\ row' = 1
    /\ pc' = "write_rows"
    /\ UNCHANGED <<inputVars, dataVars, fareVars, raised, cost_calls>>

\* open(self.output_file, "w") and sorted(self.user_bills.items())
WriteOpen ==
    /\ pc = "calc_return"
    /\ output_file' = [opened |-> TRUE, lines |-> <<>>]
    /\ sorted_bills' = SortedItems(user_bills)
    /\ row' = 1
    /\ pc' = "write_rows"
    /\ UNCHANGED <<inputVars, dataVars, fareVars, raised, cost_calls>>

WriteRow ==
    /\ pc = "write_rows"
    /\ IF row > Len(sorted_bills)
       THEN /\ pc' = "done"
            /\ UNCHANGED <<row, output_file>>
       ELSE /\ output_file' = [output_file EXCEPT
                                  !.lines = Append(@, ReportLine(sorted_bills[row]))]
            /\ row' = row + 1
            /\ UNCHANGED pc
    /\ UNCHANGED <<inputVars, dataVars, fareVars, raised, cost_calls, sorted_bills>>

----------------------------------------------------------------------------
(* Spec: process_billing on bounded input files *)

\* longest journey file drawn exhaustively, in data rows
MaxRows == 3

Text(n) == Digits(n)
\* "u2", "u10": the order of the numbers is not the order of the strings
U2 == <<117, 50>>
U10 == <<117, 49, 48>>
\* "user1", "user2", "user3"
User(n) == <<117, 115, 101, 114>> \o Digits(n)

ZoneHeader == <<"station_name", <<122, 111, 110, 101>>>>
JourneyHeader == <<<<117, 115, 101, 114, 95, 105, 100>>, "station_name", "direction", <<0, 0>>>>

\* sample_zone_map.csv
SampleZoneMap ==
    <<ZoneHeader, <<"station1", Text(1)>>, <<"station2", Text(2)>>,
      <<"station3", Text(3)>>, <<"station4", Text(4)>>>>

\* a zone map with a zone of 0, which int() accepts and the fare table rejects
ZeroZoneMap == <<ZoneHeader, <<"station1", Text(0)>>, <<"station4", Text(4)>>>>

\* zone maps with a repeated station, a zone that is no number, a row of one
\* column, and no row at all
OtherZoneMaps ==
    { <<ZoneHeader, <<"station1", Text(6)>>, <<"station4", Text(4)>>, <<"station1", Text(1)>>>>,
      <<ZoneHeader, <<"station1", Text(1)>>, <<"station4", <<120>>>>>>,
      <<ZoneHeader, <<"station1", Text(1)>>, <<"station4">>>>,
      <<>> }

\* sample_journey_data.csv, on the days of April 2022
SampleJourneyData ==
    <<JourneyHeader,
      <<User(1), "station1", "IN", <<4, 34800>>>>,
      <<User(2), "station3", "IN", <<4, 35400>>>>,
      <<User(2), "station1", "OUT", <<4, 39000>>>>,
      <<User(1), "station3", "OUT", <<4, 50100>>>>,
      <<User(3), "station4", "IN", <<6, 18600>>>>,
      <<User(3), "station2", "OUT", <<6, 27600>>>>,
      <<User(1), "station1", "IN", <<7, 34800>>>>,
      <<User(1), "station1", "OUT", <<7, 35100>>>>,
      <<User(3), "station2", "OUT", <<10, 27600>>>>>>

RowTaps == {<<"station1", "IN">>, <<"station1", "OUT">>, <<"station4", "OUT">>}
RowStamps == {<<1, 0>>, <<2, 0>>}
\* well-formed rows, and rows with an unknown station, a time that does not
\* parse, and a missing column
GoodRows == {<<u, t[1], t[2], ts>> : u \in {U2, U10}, t \in RowTaps, ts \in RowStamps}
BadRows ==
    { <<U2, "nowhere", "IN", <<1, 0>>>>,
      <<U10, "station1", "IN", <<1, SecondsPerDay>>>>,
      <<U2, "station1", "IN">> }

FileOf(header, rows) == <<header>> \o rows

JourneyFiles(n) ==
    {FileOf(JourneyHeader, rows) : rows \in SeqsUpTo(GoodRows \cup BadRows, n)}
    \cup {<<>>}

Inputs ==
    ({SampleZoneMap} \X (JourneyFiles(MaxRows) \cup {SampleJourneyData}))
    \cup ({ZeroZoneMap} \X JourneyFiles(MaxRows))
    \cup (OtherZoneMaps \X JourneyFiles(1))

Init ==
    /\ \E in \in Inputs :
          /\ zone_map_file = in[1]
          /\ journey_data_file = in[2]
    /\ output_file = [opened |-> FALSE, lines |-> <<>>]
    /\ station_to_zone = <<>>
    /\ journeys_per_user = <<>>
    /\ user_bills = <<>>
    /\ pc = "zone_open"
    /\ raised = "none"
    /\ row = 0
    /\ user_idx = 0
    /\ ev_idx = 0
    /\ daily_journeys = <<>>
    /\ daily_total = 0
    /\ monthly_total = 0
    /\ cur_day = 0
    /\ sorted_bills = <<>>
    /\ cost_calls = <<>>

Next ==
    \/ ZoneMapOpen
    \/ ReadZoneRow
    \/ JourneyDataOpen
    \/ ReadJourneyRow
    \/ CalcBeginUser
    \/ CalcCharge
    \/ CalcRollover
    \/ CalcFinish
    \/ WriteOpen
    \/ WriteRow

Spec == Init /\ [][Next]_vars

----------------------------------------------------------------------------
(* What the properties speak of *)

\* the log of the i-th billed user, and that user's bill
BilledLog(i) == DictGet(journeys_per_user, user_bills[i][1])
BilledAmount(i) == user_bills[i][2]
Billed == 1..Len(user_bills)
\* the i-th user has just been billed: the locals still hold that user's totals
JustBilled(i) == pc = "calc_user" /\ user_idx = i + 1 /\ i \in Billed

\* the taps of a log are in the order of their timestamps
Chronological(log) ==
    \A i \in 1..(Len(log) - 1) :
        \/ DateOf(TimestampOf(log[i])) < DateOf(TimestampOf(log[i + 1]))
        \/ /\ DateOf(TimestampOf(log[i])) = DateOf(TimestampOf(log[i + 1]))
           /\ TimestampOf(log[i]).time <= TimestampOf(log[i + 1]).time

DatesOf(log) == {DateOf(TimestampOf(log[i])) : i \in 1..Len(log)}
LastDateOf(log) == DateOf(TimestampOf(log[Len(log)]))

\* the fare table of the specification
TierCost(z) ==
    IF z = 1 THEN 800 ELSE IF z <= 3 THEN 500 ELSE IF z <= 5 THEN 300 ELSE 100

\* the entries not yet exited after the first n taps, each OUT matched with
\* the latest entry
RECURSIVE PendingAfter(_, _)
PendingAfter(log, n) ==
    IF n = 0 THEN <<>>
    ELSE LET s == PendingAfter(log, n - 1)
         IN  IF DirectionOf(log[n]) = "IN" THEN Append(s, ZoneOf(log[n]))
             ELSE IF DirectionOf(log[n]) = "OUT" /\ s # <<>>
             THEN SubSeq(s, 1, Len(s) - 1)
             ELSE s

\* what the n-th tap incurs: a fare, a penalty, or nothing
TapCharge(log, n) ==
    LET s == PendingAfter(log, n - 1)
    IN  IF DirectionOf(log[n]) # "OUT" THEN 0
        ELSE IF s = <<>> THEN MissingTapFee
        ELSE BaseFare + TierCost(s[Len(s)]) + TierCost(ZoneOf(log[n]))

\* the charges of the first n taps that are timestamped on day d
RECURSIVE TapChargesOn(_, _, _)
TapChargesOn(log, d, n) ==
    IF n = 0 THEN 0
    ELSE TapChargesOn(log, d, n - 1)
         + (IF DateOf(TimestampOf(log[n])) = d THEN TapCharge(log, n) ELSE 0)

\* the charges of calendar day d: its taps, and on the final day the entries
\* still un-exited at the end of the log
DayCharges(log, d) ==
    TapChargesOn(log, d, Len(log))
    + (IF d = LastDateOf(log)
       THEN MissingTapFee * Len(PendingAfter(log, Len(log))) ELSE 0)

RECURSIVE CappedDays(_, _)
CappedDays(log, days) ==
    IF days = {} THEN 0
    ELSE LET d == CHOOSE x \in days : TRUE
         IN  Min(DailyCap, DayCharges(log, d)) + CappedDays(log, days \ {d})

\* the bill with every calendar day capped on its own
DayCappedBill(log) == Min(MonthlyCap, CappedDays(log, DatesOf(log)))

\* a log without its k-th tap
WithoutTap(log, k) == SubSeq(log, 1, k - 1) \o SubSeq(log, k + 1, Len(log))

----------------------------------------------------------------------------
(* Properties *)

\* C1: for a chronologically ordered log, the bill is min(100.00, the sum
\* over the calendar days of the log of min(15.00, the charges of the taps
\* of that day)): every calendar day is capped on its own.
BillCapsEachCalendarDay ==
    \A i \in Billed :
        Chronological(BilledLog(i)) => BilledAmount(i) = DayCappedBill(BilledLog(i))

\* C2: the bill stored in user_bills is between 0.00 and 100.00, and is
\* min(100.00, monthly_total) of the monthly total after the final fold.
BillWithinMonthlyCap ==
    \A i \in Billed :
        /\ 0 <= BilledAmount(i)
        /\ BilledAmount(i) <= MonthlyCap
        /\ JustBilled(i) => BilledAmount(i) = Min(MonthlyCap, monthly_total)

BillCappedAtMonthlyCap ==
    \E i \in Billed :
        JustBilled(i) /\ monthly_total > MonthlyCap /\ BilledAmount(i) = MonthlyCap

\* C3: every fold (a rollover, the final fold) adds exactly min(15.00,
\* daily_total) to monthly_total, a rollover resets daily_total, nothing
\* else changes monthly_total while a user is processed, and the bill of a
\* chronologically ordered log is at most 15.00 for each of its dates.
FoldsAreDayCapped ==
    /\ [][/\ (pc = "calc_rollover" /\ NewDayStarted(TimestampOf(CurJourney), cur_day))
             => /\ monthly_total' = monthly_total + Min(DailyCap, daily_total)
                /\ daily_total' = 0
          /\ (pc = "calc_rollover" /\ ~NewDayStarted(TimestampOf(CurJourney), cur_day))
             => UNCHANGED <<monthly_total, daily_total>>
          /\ pc = "calc_charge" => monthly_total' = monthly_total
          /\ pc = "calc_finish"
             => monthly_total' = monthly_total + Min(DailyCap, daily_total')
          /\ pc \in {"calc_charge", "calc_rollover", "calc_finish"}
             => /\ monthly_total <= monthly_total'
                /\ monthly_total' <= monthly_total + DailyCap]_vars
    /\ [](\A i \in Billed :
             Chronological(BilledLog(i))
             => BilledAmount(i) <= DailyCap * Cardinality(DatesOf(BilledLog(i))))

\* four dangling OUTs, 20.00 in all, have been folded as 15.00 by the
\* rollover of the fourth
RolloverCappedTwentyPounds ==
    /\ pc \in {"calc_charge", "calc_finish"}
    /\ ev_idx = 5
    /\ \A k \in 1..4 : DirectionOf(CurJourneys[k]) = "OUT"
    /\ monthly_total = DailyCap
    /\ daily_total = 0

\* C4: a dangling OUT adds exactly 5.00 to the daily total of the calendar
\* day of the tap, charges no fare and leaves the stack empty.
DanglingOutChargedToItsDay ==
    [][(/\ pc = "calc_charge"
        /\ Chronological(CurJourneys)
        /\ DirectionOf(CurJourney) = "OUT"
        /\ daily_journeys = <<>>)
       => /\ daily_total' = daily_total + MissingTapFee
          /\ daily_journeys' = <<>>
          /\ cur_day = DateOf(TimestampOf(CurJourney))]_vars

IsSingleJourney(log) ==
    /\ Len(log) = 2
    /\ DirectionOf(log[1]) = "IN" /\ DirectionOf(log[2]) = "OUT"
    /\ ZoneOf(log[1]) >= 1 /\ ZoneOf(log[2]) >= 1
    /\ DateOf(TimestampOf(log[1])) = DateOf(TimestampOf(log[2]))

\* C6: a log of one IN at zone a and one OUT at zone b on the same day is
\* billed 2.00 + additional_cost(a) + additional_cost(b), between 2.20 and 3.60.
SingleJourneyBill ==
    \A i \in Billed :
        IsSingleJourney(BilledLog(i))
        => /\ BilledAmount(i) = BaseFare + TierCost(ZoneOf(BilledLog(i)[1]))
                                         + TierCost(ZoneOf(BilledLog(i)[2]))
           /\ 2200 <= BilledAmount(i)
           /\ BilledAmount(i) <= 3600

SingleJourneyFromZone4ToZone1 ==
    \E i \in Billed :
        /\ IsSingleJourney(BilledLog(i))
        /\ ZoneOf(BilledLog(i)[1]) = 4
        /\ ZoneOf(BilledLog(i)[2]) = 1
        /\ BilledAmount(i) = 3100

\* C7: a tap whose direction is neither IN nor OUT changes nothing in the
\* stack, the totals and the current day, so a log without it has the same bill.
IgnoredDirectionsChangeNothing ==
    /\ [][(/\ pc \in {"calc_charge", "calc_rollover"}
           /\ DirectionOf(CurJourney) \notin {"IN", "OUT"})
          => UNCHANGED <<daily_journeys, daily_total, monthly_total, cur_day>>]_vars
    /\ [](\A i \in Billed :
             \A k \in 1..Len(BilledLog(i)) :
                 (DirectionOf(BilledLog(i)[k]) \notin {"IN", "OUT"}
                  /\ Len(BilledLog(i)) >= 2)
                 => BillOf(WithoutTap(BilledLog(i), k)) = BilledAmount(i))

IsIgnored(journey) == DirectionOf(journey) \notin {"IN", "OUT"}

DatedNoLaterThanEarlierTap(log, k) ==
    \E j \in 1..(k - 1) : DateOf(TimestampOf(log[k])) <= DateOf(TimestampOf(log[j]))

\* C7, amended: a tap whose direction is neither IN nor OUT adds no charge
\* and leaves the stack as it is, but it takes part in the day check: dated
\* later than cur_day it rolls the day over, and otherwise it changes
\* nothing. A log without such a tap has the same bill when the tap is not
\* the first and is dated no later than an earlier tap.
IgnoredDirectionsOnlyRollOver ==
    /\ [][(pc = "calc_charge" /\ IsIgnored(CurJourney))
          => UNCHANGED <<daily_journeys, daily_total, monthly_total, cur_day>>]_vars
    /\ [][(pc = "calc_rollover" /\ IsIgnored(CurJourney))
          => /\ daily_journeys' = daily_journeys
             /\ IF DateOf(TimestampOf(CurJourney)) > cur_day
                THEN /\ cur_day' = DateOf(TimestampOf(CurJourney))
                     /\ monthly_total' = monthly_total + Min(DailyCap, daily_total)
                     /\ daily_total' = 0
                ELSE UNCHANGED <<daily_total, monthly_total, cur_day>>]_vars
    /\ [](\A i \in Billed :
             \A k \in 2..Len(BilledLog(i)) :
                 (IsIgnored(BilledLog(i)[k]) /\ DatedNoLaterThanEarlierTap(BilledLog(i), k))
                 => BillOf(WithoutTap(BilledLog(i), k)) = BilledAmount(i))

\* an ignored tap on day 3 has rolled over the 5.00 of day 1
IgnoredTapRolledDayOver ==
    /\ pc = "calc_finish"
    /\ ev_idx = 3
    /\ DirectionOf(CurJourneys[1]) = "OUT"
    /\ IsIgnored(CurJourneys[2])
    /\ cur_day = DateOf(TimestampOf(CurJourneys[2]))
    /\ cur_day > DateOf(TimestampOf(CurJourneys[1]))
    /\ monthly_total = MissingTapFee
    /\ daily_total = 0

IsValidZone(v) == v.type = "int" /\ v.val >= 1

\* C8: on every zone >= 1 get_additional_zone_cost returns the cost of the
\* zone's tier, one of 0.80, 0.50, 0.30, 0.10, and a larger zone never
\* costs more.
ZoneCostTiers ==
    /\ \A i \in 1..Len(cost_calls) :
          IsValidZone(cost_calls[i].arg)
          => /\ cost_calls[i].out = Returned(TierCost(cost_calls[i].arg.val))
             /\ cost_calls[i].out.value \in {800, 500, 300, 100}
    /\ \A i, j \in 1..Len(cost_calls) :
          (/\ IsValidZone(cost_calls[i].arg)
           /\ IsValidZone(cost_calls[j].arg)
           /\ cost_calls[i].arg.val <= cost_calls[j].arg.val)
          => cost_calls[i].out.value >= cost_calls[j].out.value

ZoneCostOfTwoTiers ==
    /\ Len(cost_calls) = 2
    /\ cost_calls[1].arg = PyInt(3) /\ cost_calls[1].out = Returned(500)
    /\ cost_calls[2].arg = PyInt(6) /\ cost_calls[2].out = Returned(100)

\* C9: a non-integer argument fails with TypeError, whatever its value, an
\* integer <= 0 fails with ValueError, a failed call returns no cost, and a
\* zone >= 1 never fails.
ZoneCostErrors ==
    \A i \in 1..Len(cost_calls) :
        LET arg == cost_calls[i].arg
            out == cost_calls[i].out
        IN  /\ arg.type \notin {"int", "bool"} => out = Raised("TypeError")
            /\ (arg.type \in {"int", "bool"} /\ arg.val <= 0) => out = Raised("ValueError")
            /\ (arg.type \in {"int", "bool"} /\ arg.val >= 1) => out.raised = "none"
            /\ out.raised # "none" => out.value = 0

BothErrorKindsRaised ==
    /\ Len(cost_calls) = 2
    /\ cost_calls[1].arg = PyFloat(-1) /\ cost_calls[1].out = Raised("TypeError")
    /\ cost_calls[2].arg = PyInt(0) /\ cost_calls[2].out = Raised("ValueError")

UsersOfFile(file) == {file[r][1] : r \in 2..Len(file)}

\* the amount a text of digits, a point and two digits stands for
IsTwoDecimalText(text) ==
    /\ Len(text) >= 4
    /\ text[Len(text) - 2] = 46
    /\ \A k \in (1..Len(text)) \ {Len(text) - 2} : IsDigit(text[k])
TwoDecimalValue(text) ==
    10 * (100 * DigitsValue(SubSeq(text, 1, Len(text) - 3))
          + DigitsValue(SubSeq(text, Len(text) - 1, Len(text))))

\* C10: after a successful run the report has exactly one line for each
\* user of the journey log, in strictly ascending order of user_id, each
\* with the user's bill written with exactly two fraction digits.
ReportLines ==
    pc = "done"
    => LET lines == output_file.lines
       IN  /\ output_file.opened
           /\ {lines[k][1] : k \in 1..Len(lines)} = UsersOfFile(journey_data_file)
           /\ Len(lines) = Cardinality(UsersOfFile(journey_data_file))
           /\ \A k \in 1..(Len(lines) - 1) : StrLess(lines[k][1], lines[k + 1][1])
           /\ \A k \in 1..Len(lines) :
                 /\ Len(lines[k]) = 2
                 /\ IsTwoDecimalText(lines[k][2])
                 /\ TwoDecimalValue(lines[k][2]) = DictGet(user_bills, lines[k][1])
                 /\ DictGet(user_bills, lines[k][1]) <= MonthlyCap

ReportReordersUsers ==
    /\ pc = "done"
    /\ Len(output_file.lines) = 2
    /\ journeys_per_user[1][1] = U2
    /\ output_file.lines[1][1] = U10
    /\ output_file.lines[2][1] = U2


\* the steps of process_billing, in the order of its four calls
StepOf(p) ==
    IF p \in {"zone_open", "zone_rows"} THEN 1
    ELSE IF p \in {"journey_open", "journey_rows"} THEN 2
    ELSE IF p \in {"calc_user", "calc_charge", "calc_rollover", "calc_finish",
                   "calc_return"} THEN 3
    ELSE 4

Terminated == pc \in {"done", "failed"}
NothingWritten == output_file = [opened |-> FALSE, lines |-> <<>>]
WrittenUsers == {output_file.lines[i][1] : i \in 1..Len(output_file.lines)}

\* C11: the four steps of process_billing run strictly in the order zone
\* map, journey data, bills, report, each writing only its own data; a run
\* that raised an exception has neither opened nor written the output; and
\* a run that has ended left either no line at all or one line for each user
\* of the journey log.
NoPartialReport ==
    /\ [](raised # "none" => NothingWritten /\ pc = "failed")
    /\ [](pc = "failed" => raised # "none")
    /\ [](output_file.opened => pc \in {"write_rows", "done"})
    /\ [](Terminated =>
            \/ output_file.lines = <<>>
            \/ /\ WrittenUsers = DictKeys(journeys_per_user)
               /\ Len(output_file.lines) = Len(journeys_per_user))
    /\ [][/\ pc' # "failed" => StepOf(pc') >= StepOf(pc)
          /\ station_to_zone' # station_to_zone => StepOf(pc) = 1
          /\ journeys_per_user' # journeys_per_user => StepOf(pc) = 2
          /\ user_bills' # user_bills => StepOf(pc) = 3
          /\ output_file' # output_file => pc \in {"calc_return", "write_rows"}
          /\ pc = "failed" => UNCHANGED vars]_vars

\* a run that billed one user and then aborted on a zone of 0
AbortedAfterBilling ==
    /\ pc = "failed"
    /\ raised = "ValueError"
    /\ user_bills # <<>>
    /\ NothingWritten

\* both reads have returned without an exception
ReadsDone ==
    pc \in {"calc_user", "calc_charge", "calc_rollover", "calc_finish",
            "calc_return", "write_rows", "done"}

\* the zone the zone map file gives a station: that of its last row
ZoneInFile(station) ==
    LET rows == {r \in 2..Len(zone_map_file) : zone_map_file[r][1] = station}
        last == CHOOSE r \in rows : \A q \in rows : q <= r
    IN  ParseInt(zone_map_file[last][2]).value

\* the records of a user among the first n rows of the journey file
RECURSIVE RecordsOf(_, _)
RecordsOf(user_id, n) ==
    IF n < 2 THEN <<>>
    ELSE LET fields == journey_data_file[n]
             rest == RecordsOf(user_id, n - 1)
         IN  IF fields[1] = user_id
             THEN Append(rest, <<ZoneInFile(fields[2]), fields[3],
                                 DateTime(fields[4][1], fields[4][2])>>)
             ELSE rest

\* the rows of the journey file are in the order of their timestamps
TimeSorted(file) ==
    \A r \in 2..(Len(file) - 1) :
        \/ file[r][4][1] < file[r + 1][4][1]
        \/ file[r][4][1] = file[r + 1][4][1] /\ file[r][4][2] <= file[r + 1][4][2]

\* the rows of the journey file read so far
RowsRead == IF pc = "journey_rows" THEN row - 1 ELSE Len(journey_data_file)

\* C12: while the journey file is read, and after both reads, the journey
\* log has one key for each user of the rows read, and a user's sequence is
\* exactly that user's rows in file order, each with the zone of its station
\* and with its direction as written; when the file is sorted by time, each
\* user's sequence is in chronological order.
JourneyLogsAreTheRecords ==
    (pc = "journey_rows" \/ ReadsDone)
    => /\ DictKeys(journeys_per_user) = {journey_data_file[r][1] : r \in 2..RowsRead}
       /\ Len(journeys_per_user) = Cardinality(DictKeys(journeys_per_user))
       /\ \A i \in 1..Len(journeys_per_user) :
             /\ journeys_per_user[i][2] = RecordsOf(journeys_per_user[i][1], RowsRead)
             /\ (ReadsDone /\ TimeSorted(journey_data_file))
                => Chronological(journeys_per_user[i][2])

\* two users with interleaved rows, one of them with rows on two days
InterleavedUsersRead ==
    /\ pc = "calc_user"
    /\ user_idx = 1
    /\ Len(journeys_per_user) = 2
    /\ Len(journeys_per_user[1][2]) = 2
    /\ journey_data_file[3][1] = journeys_per_user[2][1]
    /\ DateOf(TimestampOf(journeys_per_user[1][2][1]))
          < DateOf(TimestampOf(journeys_per_user[1][2][2]))

\* the run reads the sample zone map and the sample journey data
OnSampleFiles ==
    zone_map_file = SampleZoneMap /\ journey_data_file = SampleJourneyData

\* "6.90", "3.30", "7.80"
SampleReport ==
    << <<User(1), <<54, 46, 57, 48>>>>,
       <<User(2), <<51, 46, 51, 48>>>>,
       <<User(3), <<55, 46, 56, 48>>>> >>

\* C13: the run on the sample files raises no exception and ends with the
\* bills user1 = 6.90, user2 = 3.30, user3 = 7.80, and with the report
\* holding these three lines in this order.
SampleRunBills ==
    OnSampleFiles
    => /\ raised = "none"
       /\ pc # "failed"
       /\ pc \in {"calc_return", "write_rows", "done"}
          => user_bills = <<<<User(1), 6900>>, <<User(2), 3300>>, <<User(3), 7800>>>>
       /\ pc = "done" => output_file = [opened |-> TRUE, lines |-> SampleReport]

SampleRunDone ==
    /\ OnSampleFiles
    /\ pc = "done"
    /\ Len(output_file.lines) = 3
    /\ DictGet(user_bills, User(3)) = BaseFare + 300 + 500 + MissingTapFee

\* a user's journeys are being processed, and how many of them have been
\* through the if / elif chain
InUserLoop == pc \in {"calc_charge", "calc_rollover", "calc_finish"}
TapsCharged == IF pc = "calc_rollover" THEN ev_idx ELSE ev_idx - 1

\* the INs seen among the first n taps, and the OUTs among them that found
\* an IN not yet matched
RECURSIVE TallyAfter(_, _)
TallyAfter(log, n) ==
    IF n = 0 THEN [entries |-> 0, matched |-> 0]
    ELSE LET t == TallyAfter(log, n - 1)
         IN  IF DirectionOf(log[n]) = "IN"
             THEN [t EXCEPT !.entries = @ + 1]
             ELSE IF DirectionOf(log[n]) = "OUT" /\ t.entries > t.matched
             THEN [t EXCEPT !.matched = @ + 1]
             ELSE t

\* C14: the stack holds exactly the zones of the IN taps not yet matched,
\* oldest first, and its size is the number of INs seen minus the number of
\* OUTs matched; an IN pushes its zone and charges nothing; an OUT on a
\* non-empty stack removes exactly the entry pushed last and adds 2.00 plus
\* the additional costs of that entry zone and of the exit zone to the daily
\* total; nothing else changes the stack.
StackHoldsUnmatchedEntries ==
    /\ [](InUserLoop =>
            /\ daily_journeys = PendingAfter(CurJourneys, TapsCharged)
            /\ Len(daily_journeys) = TallyAfter(CurJourneys, TapsCharged).entries
                                       - TallyAfter(CurJourneys, TapsCharged).matched)
    /\ [][/\ (pc = "calc_charge" /\ DirectionOf(CurJourney) = "IN")
             => /\ daily_journeys' = daily_journeys \o <<ZoneOf(CurJourney)>>
                /\ daily_total' = daily_total
          /\ (pc = "calc_charge" /\ DirectionOf(CurJourney) = "OUT"
                                /\ daily_journeys # <<>>)
             => /\ daily_journeys = daily_journeys' \o <<daily_journeys[Len(daily_journeys)]>>
                /\ daily_total' = daily_total + BaseFare
                                     + TierCost(daily_journeys[Len(daily_journeys)])
                                     + TierCost(ZoneOf(CurJourney))
          /\ (pc = "calc_charge" /\ DirectionOf(CurJourney) = "OUT"
                                /\ daily_journeys = <<>>)
             => daily_journeys' = <<>>
          /\ (pc = "calc_charge" /\ DirectionOf(CurJourney) \notin {"IN", "OUT"})
             => UNCHANGED <<daily_journeys, daily_total>>
          /\ pc \in {"calc_rollover", "calc_finish"}
             => daily_journeys' = daily_journeys]_vars

\* entries at zones 1 and 6 are pending, and the exit at zone 1 that
\* follows is matched with the entry at zone 6
LatestEntryMatched ==
    /\ pc = "calc_rollover"
    /\ ev_idx = 3
    /\ ZoneOf(CurJourneys[1]) = 1 /\ DirectionOf(CurJourneys[1]) = "IN"
    /\ ZoneOf(CurJourneys[2]) = 6 /\ DirectionOf(CurJourneys[2]) = "IN"
    /\ ZoneOf(CurJourney) = 1 /\ DirectionOf(CurJourney) = "OUT"
    /\ daily_journeys = <<1>>
    /\ daily_total = BaseFare + 100 + 800

\* the latest date among the first n taps of a log, the first tap's if n = 0
RECURSIVE LatestDate(_, _)
LatestDate(log, n) ==
    IF n = 0 THEN DateOf(TimestampOf(log[1]))
    ELSE LET m == LatestDate(log, n - 1)
             d == DateOf(TimestampOf(log[n]))
         IN  IF d > m THEN d ELSE m

\* the taps among the first n that are dated later than every tap before
\* them and than the first tap: those whose day check rolls the day over
RolloverTaps(log, n) ==
    {k \in 1..n : DateOf(TimestampOf(log[k])) > LatestDate(log, k - 1)}

\* the taps of the current user that have been through the day check
DaysChecked == ev_idx - 1

\* C15: the day check of a tap rolls the day over exactly when the tap's
\* date is strictly later than cur_day, and then once: cur_day becomes the
\* tap's date, one capped daily total is folded and the daily total is
\* reset, however many days lie between; otherwise the three are left
\* alone. Nothing else changes cur_day, cur_day never decreases and is the
\* latest date checked so far, and for a chronologically ordered log the
\* taps that rolled over are as many as the distinct dates seen minus one.
RolloverOncePerLaterDate ==
    /\ [](InUserLoop => cur_day = LatestDate(CurJourneys, DaysChecked))
    /\ []((pc = "calc_finish" /\ Chronological(CurJourneys))
          => Cardinality(RolloverTaps(CurJourneys, Len(CurJourneys))) + 1
             = Cardinality(DatesOf(CurJourneys)))
    /\ [][/\ (pc = "calc_rollover" /\ DateOf(TimestampOf(CurJourney)) > cur_day)
             => /\ cur_day' = DateOf(TimestampOf(CurJourney))
                /\ monthly_total' = monthly_total + Min(DailyCap, daily_total)
                /\ daily_total' = 0
          /\ (pc = "calc_rollover" /\ DateOf(TimestampOf(CurJourney)) <= cur_day)
             => UNCHANGED <<cur_day, monthly_total, daily_total>>
          /\ pc \in {"calc_charge", "calc_finish"} => cur_day' = cur_day
          /\ InUserLoop => cur_day' >= cur_day]_vars

\* a log of four taps dated day 1, day 3, day 3 and day 1: the one rollover
\* over the gap has been made, the later taps made none
OneRolloverForTheGap ==
    /\ pc = "calc_finish"
    /\ Len(CurJourneys) = 4
    /\ [k \in 1..4 |-> DateOf(TimestampOf(CurJourneys[k]))] = <<1, 3, 3, 1>>
    /\ cur_day = 3
    /\ RolloverTaps(CurJourneys, 4) = {2}

\* C16: a user's bill is the bill of that user's own rows of the journey
\* file, whatever rows of other users lie before, between or after them and
\* whichever users were billed before; every user's loop starts from an
\* empty stack, zero totals and the date of that user's own first tap, and
\* billing a user leaves the bills of the users billed before as they were.
BillDependsOnOwnRowsOnly ==
    /\ [](ReadsDone =>
            \A i \in Billed :
                BilledAmount(i)
                = BillOf(RecordsOf(user_bills[i][1], Len(journey_data_file))))
    /\ [][/\ (pc = "calc_user" /\ pc' = "calc_charge")
             => /\ daily_journeys' = <<>>
                /\ daily_total' = 0
                /\ monthly_total' = 0
                /\ cur_day' = DateOf(TimestampOf(CurJourneys[1]))
          /\ InUserLoop
             => /\ \A i \in Billed : user_bills'[i] = user_bills[i]
                /\ pc' \in {"calc_user", "failed"} \/ user_idx' = user_idx
          /\ pc = "calc_finish"
             => /\ CurUser \notin DictKeys(user_bills)
                /\ user_bills' = user_bills \o <<<<CurUser, CapMonth(monthly_total')>>>>]_vars

\* the rows of u2 lie around the row of u10: u2 leaves two entries
\* un-exited, and the exit of u10 is billed as an exit without an entry
UsersBilledApart ==
    /\ pc = "calc_return"
    /\ Len(journey_data_file) = 4
    /\ [r \in 2..4 |-> journey_data_file[r][1]] = [r \in 2..4 |-> IF r = 3 THEN U10 ELSE U2]
    /\ Len(user_bills) = 2
    /\ BilledLog(1) = <<<<1, "IN", DateTime(1, 0)>>, <<1, "IN", DateTime(1, 0)>>>>
    /\ BilledLog(2) = <<<<1, "OUT", DateTime(1, 0)>>>>
    /\ BilledAmount(1) = 2 * MissingTapFee
    /\ BilledAmount(2) = MissingTapFee

\* a log of one entry and, on a later date, one exit
IsJourneyOverDays(log) ==
    /\ Len(log) = 2
    /\ DirectionOf(log[1]) = "IN"
    /\ DirectionOf(log[2]) = "OUT"
    /\ DateOf(TimestampOf(log[1])) < DateOf(TimestampOf(log[2]))

HasNoExit(log) == \A k \in 1..Len(log) : DirectionOf(log[k]) # "OUT"
EntriesOf(log) == Cardinality({k \in 1..Len(log) : DirectionOf(log[k]) = "IN"})

UsersWithoutJourney ==
    {i \in 1..Len(journeys_per_user) : journeys_per_user[i][2] = <<>>}

\* the journey file has no row after its header, or no row at all
NoJourneyRows == Len(journey_data_file) <= 1

\* C18: every key of the journey log holds at least one journey, a key
\* being made only by appending one; so the first journey of every user is
\* there when the bills are calculated and no IndexError is raised; and a
\* run on a journey file without rows ends with an empty report.
EveryUserKeyHasAJourney ==
    /\ UsersWithoutJourney = {}
    /\ raised # "IndexError"
    /\ (NoJourneyRows /\ pc = "done") => output_file = [opened |-> TRUE, lines |-> <<>>]

\* C18, amended: once both reads have returned, every key of the journey
\* log holds at least one journey, and no run raises an IndexError. A key
\* without a journey is made by the lookup of a row whose station is not in
\* the zone map: it is the last key, and the KeyError of that row has ended
\* the run. A run on a journey file without rows that has read its zone map
\* raises nothing and ends with an opened report of no line.
EveryBilledUserHasAJourney ==
    /\ [](ReadsDone => UsersWithoutJourney = {})
    /\ [](raised # "IndexError")
    /\ [](UsersWithoutJourney # {}
          => /\ pc = "failed" /\ raised = "KeyError"
             /\ UsersWithoutJourney = {Len(journeys_per_user)})
    /\ []((NoJourneyRows /\ pc = "done")
          => /\ output_file = [opened |-> TRUE, lines |-> <<>>]
             /\ journeys_per_user = <<>> /\ user_bills = <<>>)
    /\ [][(NoJourneyRows /\ StepOf(pc) >= 2 /\ pc # "failed") => pc' # "failed"]_vars

\* the row of u10 was appended, the row of u2 names a station that is not
\* in the zone map: the run has ended with a key of u2 and no journey
UnknownStationLeftEmptyKey ==
    /\ pc = "failed"
    /\ raised = "KeyError"
    /\ Len(journeys_per_user) = 2
    /\ journeys_per_user[1][1] = U10 /\ Len(journeys_per_user[1][2]) = 1
    /\ journeys_per_user[2] = <<U2, <<>>>>
    /\ ~output_file.opened

====
